---- MODULE Spec2Model ----
(***************************************************************************)
(* Model of src/middleware.rs: the CasbinService transform and the         *)
(* CasbinMiddleware service (actix-casbin-auth).                           *)
(*                                                                         *)
(* A request is a task running the future built by CasbinMiddleware::call. *)
(* Every invocation of call is a frame <<r, k>>: request r in the k-th     *)
(* CasbinMiddleware of the chain (k = 1 is the outermost one).  All the    *)
(* middlewares of the chain are produced by new_transform from the same    *)
(* CasbinService and so share one Arc<RwLock<CachedEnforcer>>.             *)
(***************************************************************************)
EXTENDS Integers, Sequences, FiniteSets, TLC

\* ---------------------------------------------------------------- bounds
NumReqs == 2          \* concurrent request tasks
MaxDepth == 2         \* CasbinMiddleware instances nested in one chain

Reqs == 1..NumReqs
Layers == 1..MaxDepth

\* ---------------------------------------------------------------- inputs
Subjects == {"", "alice"}
Domains == {<<>>, <<"tenantA">>}            \* Option<String>: None / Some(d)
Paths == {"/data/1", "/Data/1/"}
Methods == {"Get"}                          \* http::Method values
ErrKinds == {"adapter", "matcher"}          \* casbin::Error values
HandlerStatuses == {200, 403}               \* statuses the wrapped handler may answer

\* CasbinVals (lines 28-32)
CasbinVals == [subject : Subjects, domain : Domains]

\* extensions().get::<CasbinVals>() is None (<<>>) or Some(v) (<<v>>)
Extensions == {<<>>} \cup {<<v>> : v \in CasbinVals}

\* ServiceRequest, as far as call() reads it
ServiceRequests == [path : Paths, method : Methods, extensions : Extensions]

\* req.method().as_str(): the canonical name of the method (line 113)
MethodAsStr(m) == CASE m = "Get" -> "GET"
                    [] m = "Post" -> "POST"
                    [] m = "Delete" -> "DELETE"

\* faulty variant: the path is case-folded and its trailing slash removed
PathNormalized(p) == IF p = "/Data/1/" THEN "/data/1" ELSE p

\* req.path().to_string(): an owned copy of the path (line 112)
PathToString(p) == p

\* ---------------------------------------------------------------- enforcer
Actions == {MethodAsStr(m) : m \in Methods}
Queries3 == {<<s, p, a>> : s \in Subjects, p \in Paths, a \in Actions}
Queries4 == {<<s, d[1], p, a>> : s \in Subjects, d \in Domains \ {<<>>}, p \in Paths, a \in Actions}

\* Policies the CachedEnforcer may be loaded with: the rule sets it answers
\* Ok(true) to.  PermitData allows every subject on "/data/1" only.
PermitData == {q \in Queries3 \cup Queries4 : q[Len(q) - 1] = "/data/1"}
PermitNone == {}
Policies == {PermitData, PermitNone}

\* Verdicts of enforce_mut: Ok(true), Ok(false), Err(e)
Allow == <<"allow">>
Deny == <<"deny">>
Error(e) == <<"error", e>>

\* CachedEnforcer::enforce_mut(query) under policy pol: the policy's answer, or
\* an engine error of any kind.
EnforceMut(pol, query) ==
    {IF query \in pol THEN Allow ELSE Deny} \cup {Error(e) : e \in ErrKinds}

\* ---------------------------------------------------------------- lock
\* tokio / async-std RwLock: a set of write guards and a set of read guards.
ExtHolder == <<0, 0>>
FreeLock == [writers |-> {}, readers |-> {}]

\* cloned_enforcer.write().await completes only when nobody holds a guard
WriteReady(l) == l.writers = {} /\ l.readers = {}
WriteGuard(l, h) == [l EXCEPT !.writers = @ \cup {h}]

\* handle.read().await completes when no write guard is held
ReadReady(l) == l.writers = {}
ReadGuard(l, h) == [l EXCEPT !.readers = @ \cup {h}]

\* drop(lock)
DropGuard(l, h) == [writers |-> l.writers \ {h}, readers |-> l.readers \ {h}]

\* ---------------------------------------------------------------- responses
NoResult == <<>>
\* HttpResponse::X().finish().map_into_right_body(), wrapped in Ok(req.into_response(..))
RightBody(status) == [kind |-> "Ok", status |-> status, body |-> <<"right", "empty">>]
Unauthorized == RightBody(401)
Forbidden == RightBody(403)
\* faulty variant of BadGateway: another status
InternalServerError == RightBody(500)
BadGateway == RightBody(502)

\* what the wrapped handler answers: Ok(response) or Err(error)
HandlerOk(status) == [kind |-> "Ok", status |-> status, body |-> <<"payload">>]
HandlerErr == [kind |-> "Err", status |-> 0, body |-> <<>>]
HandlerResults == {HandlerOk(s) : s \in HandlerStatuses} \cup {HandlerErr}

\* faulty variant: the forwarded response lands in the right branch
MapIntoRightBody(res) ==
    IF res.kind = "Ok" THEN [res EXCEPT !.body = <<"right">> \o @] ELSE res

\* srv.call(req).await.map(|res| res.map_into_left_body())  (lines 132, 153)
MapIntoLeftBody(res) ==
    IF res.kind = "Ok" THEN [res EXCEPT !.body = <<"left">> \o @] ELSE res

\* ---------------------------------------------------------------- sharing
\* The CachedEnforcers of the application: the one CasbinService::new wraps in
\* Arc::new(RwLock::new(..)) (lines 40-45), and another one, without rules,
\* that the application could build on its own.
Enforcers == {"e1", "e2"}

\* CasbinService { enforcer }: the value of the Arc is the enforcer it points to
CasbinServiceNew == [enforcer |-> "e1"]

\* self.enforcer.clone()  (line 48)
GetEnforcer(svc) == svc.enforcer

\* CasbinService { enforcer: e }  (line 52)
SetEnforcer(e) == [enforcer |-> e]

\* faulty variant: the middleware gets an enforcer of its own
NewTransformOwnEnforcer(svc) == [enforcer |-> CHOOSE e \in Enforcers : e # svc.enforcer]

\* CasbinMiddleware { enforcer: self.enforcer.clone(), .. }  (lines 68-71)
NewTransform(svc) == [enforcer |-> svc.enforcer]

\* The application: a gate, the handle it hands out, a second gate built from
\* that handle, and the middlewares the two gates produce (the outermost from
\* the first gate, the others from the second).
Gate == CasbinServiceNew
Handle == GetEnforcer(Gate)
Gate2 == SetEnforcer(Handle)
Middleware(k) == NewTransform(IF k = 1 THEN Gate ELSE Gate2)
Enf(k) == Middleware(k).enforcer

\* ---------------------------------------------------------------- frames
VARIABLES
    depth,      \* number of CasbinMiddleware instances wrapped around the handler
    frames,     \* frames[r][k]: the call() future of request r in middleware k
    handler,    \* handler[r]: the innermost wrapped service, as seen by request r
    locks,      \* locks[e]: the RwLock around CachedEnforcer e
    policies,   \* policies[e]: the rule set of CachedEnforcer e
    ext,        \* an outside holder of get_enforcer()'s handle
    ready,      \* what the wrapped handler's poll_ready returns at present
    polled      \* what the framework last got from the outermost poll_ready

vars == <<depth, frames, handler, locks, policies, ext, ready, polled>>

\* the enforcer of the middleware, as every property below sees it
lock == locks[Gate.enforcer]
policy == policies[Gate.enforcer]

\* stderr lines
QueryLine(subject, domain, path, action) == <<"query", subject, domain, path, action>>
ErrorLine(tag, verdict) == <<tag, verdict[2]>>

\* vec![subject, domain, path, action] (line 129) / vec![subject, path, action] (line 150)
EnforceArgs(f) ==
    IF f.domain # <<>>
    THEN <<f.subject, f.domain[1], f.path, f.action>>
    ELSE <<f.subject, f.path, f.action>>

\* The locals of one call() future.  waits / acquires / enforces / srvCalls
\* count its write() requests, the guards it obtained, its enforce_mut calls
\* and its srv.call calls; trace lists what it has executed so far: the
\* CasbinVals lookup and subject test, write().await, enforce_mut, drop(lock),
\* srv.call; admitted frames go on to request the write lock,
\* the others have answered 401 (lines 118-120, 171).
NewFrame(req, path, action, option_vals, admitted) ==
    [pc |-> IF admitted THEN "wait_lock" ELSE "done",
     req |-> req, path |-> path, action |-> action, option_vals |-> option_vals,
     subject |-> IF option_vals = <<>> THEN "" ELSE option_vals[1].subject,
     domain |-> IF option_vals = <<>> THEN <<>> ELSE option_vals[1].domain,
     query |-> <<>>, verdict |-> <<>>,
     result |-> IF admitted THEN NoResult ELSE <<Unauthorized>>,
     waits |-> IF admitted THEN 1 ELSE 0,
     acquires |-> 0, enforces |-> 0, srvCalls |-> 0, stderr |-> <<>>,
     trace |-> <<"identity">>]

\* faulty variant: a missing CasbinVals is not rejected
CallFrameNoLookupCheck(req) ==
    NewFrame(req, PathToString(req.path), MethodAsStr(req.method), req.extensions,
             req.extensions = <<>> \/ req.extensions[1].subject # "")

\* faulty variant: an empty subject is not rejected
CallFrameNoSubjectCheck(req) ==
    NewFrame(req, PathToString(req.path), MethodAsStr(req.method), req.extensions,
             req.extensions # <<>>)

\* The synchronous head of the future (lines 112-127 / 149, 171): snapshot path
\* and method, look up CasbinVals, answer 401 or go on to request the write lock.
CallFrame(req) ==
    LET path == PathToString(req.path)
        action == MethodAsStr(req.method)
        option_vals == req.extensions
    IN  IF option_vals = <<>>
        THEN NewFrame(req, path, action, option_vals, FALSE)
        ELSE LET vals == option_vals[1]
             IN  IF vals.subject # ""
                 THEN NewFrame(req, path, action, option_vals, TRUE)
                 ELSE NewFrame(req, path, action, option_vals, FALSE)

FrameIds == {<<r, k>> \in Reqs \X Layers : k <= depth /\ k <= Len(frames[r])}
At(r, k, pc) == k <= Len(frames[r]) /\ frames[r][k].pc = pc
Holds(r, k) == <<r, k>> \in locks[Enf(k)].writers \cup locks[Enf(k)].readers

NoHandler == [calls |-> 0, req |-> <<>>, resp |-> <<>>]

Init ==
    /\ depth \in 1..MaxDepth
    /\ frames = [r \in Reqs |-> <<>>]
    /\ handler = [r \in Reqs |-> NoHandler]
    /\ locks = [e \in Enforcers |-> FreeLock]
    /\ \E p \in Policies :
          policies = [e \in Enforcers |-> IF e = CasbinServiceNew.enforcer THEN p ELSE PermitNone]
    /\ ext = "idle"
    /\ ready = "Ready"
    /\ polled = <<>>

\* The framework hands request r to the outermost CasbinMiddleware (line 107).
Arrive(r) ==
    /\ frames[r] = <<>>
    /\ \E req \in ServiceRequests : frames' = [frames EXCEPT ![r] = <<CallFrame(req)>>]
    /\ UNCHANGED <<ready, polled, depth, handler, locks, policies, ext>>

\* faulty variant: read().await in place of write().await
AcquireRead(r, k) ==
    /\ At(r, k, "wait_lock")
    /\ ReadReady(locks[Enf(k)])
    /\ locks' = [locks EXCEPT ![Enf(k)] = ReadGuard(@, <<r, k>>)]
    /\ frames' = [frames EXCEPT ![r][k].pc = "locked", ![r][k].acquires = @ + 1,
                                ![r][k].trace = Append(@, "acquire")]
    /\ UNCHANGED <<ready, polled, depth, handler, policies, ext>>

\* cloned_enforcer.write().await completes (lines 127, 149)
AcquireWrite(r, k) ==
    /\ At(r, k, "wait_lock")
    /\ WriteReady(locks[Enf(k)])
    /\ locks' = [locks EXCEPT ![Enf(k)] = WriteGuard(@, <<r, k>>)]
    /\ frames' = [frames EXCEPT ![r][k].pc = "locked", ![r][k].acquires = @ + 1,
                                ![r][k].trace = Append(@, "acquire")]
    /\ UNCHANGED <<ready, polled, depth, handler, policies, ext>>

\* eprintln! of the query (line 128, domain branch only), then enforce_mut is
\* entered with the query (lines 129, 150)
EnforceBegin(r, k) ==
    /\ At(r, k, "locked")
    /\ LET f == frames[r][k]
           line == IF f.domain # <<>>
                   THEN <<QueryLine(f.subject, f.domain[1], f.path, f.action)>>
                   ELSE <<>>
       IN  frames' = [frames EXCEPT ![r][k].pc = "enforcing",
                                    ![r][k].query = EnforceArgs(f),
                                    ![r][k].enforces = @ + 1,
                                    ![r][k].trace = Append(@, "enforce"),
                                    ![r][k].stderr = @ \o line]
    /\ UNCHANGED <<ready, polled, depth, handler, locks, policies, ext>>

\* enforce_mut returns; the match selects an arm (lines 129-130, 134, 140 / 150-161)
EnforceReturn(r, k) ==
    /\ At(r, k, "enforcing")
    /\ \E v \in EnforceMut(policies[Enf(k)], frames[r][k].query) :
         frames' = [frames EXCEPT ![r][k].verdict = v,
                                  ![r][k].pc = CASE v = Allow -> "arm_allow"
                                                 [] v = Deny -> "arm_deny"
                                                 [] OTHER -> "arm_error"]
    /\ UNCHANGED <<ready, polled, depth, handler, locks, policies, ext>>

\* faulty variant: the Ok(true) arm keeps its guard across srv.call
AllowDropMissing(r, k) ==
    /\ At(r, k, "arm_allow")
    /\ frames' = [frames EXCEPT ![r][k].pc = "forward"]
    /\ UNCHANGED <<ready, polled, depth, handler, locks, policies, ext>>

\* Ok(true) => drop(lock)  (lines 131, 152)
AllowDrop(r, k) ==
    /\ At(r, k, "arm_allow")
    /\ locks' = [locks EXCEPT ![Enf(k)] = DropGuard(@, <<r, k>>)]
    /\ frames' = [frames EXCEPT ![r][k].pc = "forward",
                                ![r][k].trace = Append(@, "release")]
    /\ UNCHANGED <<ready, polled, depth, handler, policies, ext>>

\* faulty variant: srv.call happens only if the policy still permits the query
SrvCallRechecks(r, k) ==
    /\ At(r, k, "forward")
    /\ frames[r][k].query \in policies[Enf(k)]
    /\ LET f == frames[r][k]
       IN  IF k < depth
           THEN /\ frames' = [frames EXCEPT
                      ![r] = Append([@ EXCEPT ![k].pc = "await_srv",
                                              ![k].srvCalls = @ + 1,
                                              ![k].trace = Append(@, "downstream")],
                                    CallFrame(f.req))]
                /\ UNCHANGED handler
           ELSE /\ frames' = [frames EXCEPT ![r][k].pc = "await_srv",
                                            ![r][k].srvCalls = @ + 1,
                                            ![r][k].trace = Append(@, "downstream")]
                /\ handler' = [handler EXCEPT ![r] = [calls |-> @.calls + 1,
                                                      req |-> <<f.req>>,
                                                      resp |-> <<>>]]
    /\ UNCHANGED <<ready, polled, depth, locks, policies, ext>>

\* srv.call(req) (lines 132, 153): the wrapped service is the next
\* CasbinMiddleware of the chain, or the handler itself.
SrvCall(r, k) ==
    /\ At(r, k, "forward")
    /\ LET f == frames[r][k]
       IN  IF k < depth
           THEN /\ frames' = [frames EXCEPT
                      ![r] = Append([@ EXCEPT ![k].pc = "await_srv",
                                              ![k].srvCalls = @ + 1,
                                              ![k].trace = Append(@, "downstream")],
                                    CallFrame(f.req))]
                /\ UNCHANGED handler
           ELSE /\ frames' = [frames EXCEPT ![r][k].pc = "await_srv",
                                            ![r][k].srvCalls = @ + 1,
                                            ![r][k].trace = Append(@, "downstream")]
                /\ handler' = [handler EXCEPT ![r] = [calls |-> @.calls + 1,
                                                      req |-> <<f.req>>,
                                                      resp |-> <<>>]]
    /\ UNCHANGED <<ready, polled, depth, locks, policies, ext>>

\* the wrapped handler answers request r
HandlerRespond(r) ==
    /\ handler[r].calls > 0
    /\ handler[r].resp = <<>>
    /\ \E res \in HandlerResults : handler' = [handler EXCEPT ![r].resp = <<res>>]
    /\ UNCHANGED <<ready, polled, depth, frames, locks, policies, ext>>

\* the result of the service wrapped by middleware k, once it is there
Downstream(r, k) ==
    IF k < depth
    THEN IF Len(frames[r]) > k /\ frames[r][k + 1].pc = "done"
         THEN frames[r][k + 1].result ELSE <<>>
    ELSE handler[r].resp

\* srv.call(req).await completes; .map(|res| res.map_into_left_body())
AwaitSrv(r, k) ==
    /\ At(r, k, "await_srv")
    /\ Downstream(r, k) # <<>>
    /\ frames' = [frames EXCEPT ![r][k].pc = "done",
                                ![r][k].result = <<MapIntoLeftBody(Downstream(r, k)[1])>>]
    /\ UNCHANGED <<ready, polled, depth, handler, locks, policies, ext>>

\* faulty variant: the Ok(false) arm goes on to srv.call
DenyDropForwards(r, k) ==
    /\ At(r, k, "arm_deny")
    /\ locks' = [locks EXCEPT ![Enf(k)] = DropGuard(@, <<r, k>>)]
    /\ frames' = [frames EXCEPT ![r][k].pc = "forward",
                                ![r][k].trace = Append(@, "release")]
    /\ UNCHANGED <<ready, polled, depth, handler, policies, ext>>

\* Ok(false) => drop(lock)  (lines 135, 156)
DenyDrop(r, k) ==
    /\ At(r, k, "arm_deny")
    /\ locks' = [locks EXCEPT ![Enf(k)] = DropGuard(@, <<r, k>>)]
    /\ frames' = [frames EXCEPT ![r][k].pc = "synth_403",
                                ![r][k].trace = Append(@, "release")]
    /\ UNCHANGED <<ready, polled, depth, handler, policies, ext>>

\* Ok(req.into_response(HttpResponse::Forbidden()...))  (lines 136-138, 157-159)
Respond403(r, k) ==
    /\ At(r, k, "synth_403")
    /\ frames' = [frames EXCEPT ![r][k].pc = "done", ![r][k].result = <<Forbidden>>]
    /\ UNCHANGED <<ready, polled, depth, handler, locks, policies, ext>>

\* Err(err) => eprintln!("140 {err:?}") / eprintln!("161 {err:?}")  (lines 141, 162)
ErrorLog(r, k) ==
    /\ At(r, k, "arm_error")
    /\ LET f == frames[r][k]
           tag == IF f.domain # <<>> THEN "140" ELSE "161"
       IN  frames' = [frames EXCEPT ![r][k].pc = "error_logged",
                                    ![r][k].stderr = Append(@, ErrorLine(tag, f.verdict))]
    /\ UNCHANGED <<ready, polled, depth, handler, locks, policies, ext>>

\* faulty variant: the Err arm asks for the lock again
ErrorDropRetries(r, k) ==
    /\ At(r, k, "error_logged")
    /\ locks' = [locks EXCEPT ![Enf(k)] = DropGuard(@, <<r, k>>)]
    /\ frames' = [frames EXCEPT ![r][k].pc = "wait_lock", ![r][k].waits = @ + 1,
                                ![r][k].trace = Append(@, "release")]
    /\ UNCHANGED <<ready, polled, depth, handler, policies, ext>>

\* drop(lock) of the Err arm (lines 142, 163)
ErrorDrop(r, k) ==
    /\ At(r, k, "error_logged")
    /\ locks' = [locks EXCEPT ![Enf(k)] = DropGuard(@, <<r, k>>)]
    /\ frames' = [frames EXCEPT ![r][k].pc = "synth_502",
                                ![r][k].trace = Append(@, "release")]
    /\ UNCHANGED <<ready, polled, depth, handler, policies, ext>>

\* faulty variant: the enforcer's error is returned on the error channel
Respond502AsErr(r, k) ==
    /\ At(r, k, "synth_502")
    /\ frames' = [frames EXCEPT ![r][k].pc = "done",
                                ![r][k].result = <<[kind |-> "Err", status |-> 502, body |-> <<>>]>>]
    /\ UNCHANGED <<ready, polled, depth, handler, locks, policies, ext>>

\* Ok(req.into_response(HttpResponse::BadGateway()...))  (lines 143-145, 164-166)
Respond502(r, k) ==
    /\ At(r, k, "synth_502")
    /\ frames' = [frames EXCEPT ![r][k].pc = "done", ![r][k].result = <<BadGateway>>]
    /\ UNCHANGED <<ready, polled, depth, handler, locks, policies, ext>>

\* ---------------------------------------------------------------- outside holder
\* Code holding the Arc returned by get_enforcer() (lines 47-49) edits the
\* policy: handle.write().await, add/remove rules, drop the guard.
ExtAcquire ==
    /\ ext = "idle"
    /\ WriteReady(locks[Handle])
    /\ locks' = [locks EXCEPT ![Handle] = WriteGuard(@, ExtHolder)]
    /\ ext' = "held"
    /\ UNCHANGED <<ready, polled, depth, frames, handler, policies>>

ExtMutate ==
    /\ ext = "held"
    /\ \E p \in Policies \ {policies[Handle]} : policies' = [policies EXCEPT ![Handle] = p]
    /\ ext' = "mutated"
    /\ UNCHANGED <<ready, polled, depth, frames, handler, locks>>

ExtRelease ==
    /\ ext = "mutated"
    /\ locks' = [locks EXCEPT ![Handle] = DropGuard(@, ExtHolder)]
    /\ ext' = "idle"
    /\ UNCHANGED <<ready, polled, depth, frames, handler, policies>>

\* ---------------------------------------------------------------- specification
Step(r, k) ==
    \/ AcquireWrite(r, k)
    \/ EnforceBegin(r, k)
    \/ EnforceReturn(r, k)
    \/ AllowDrop(r, k)
    \/ SrvCall(r, k)
    \/ AwaitSrv(r, k)
    \/ DenyDrop(r, k)
    \/ Respond403(r, k)
    \/ ErrorLog(r, k)
    \/ ErrorDrop(r, k)
    \/ Respond502(r, k)

\* every step of a frame but the completion of write().await
Progress(r, k) ==
    \/ EnforceBegin(r, k)
    \/ EnforceReturn(r, k)
    \/ AllowDrop(r, k)
    \/ SrvCall(r, k)
    \/ AwaitSrv(r, k)
    \/ DenyDrop(r, k)
    \/ Respond403(r, k)
    \/ ErrorLog(r, k)
    \/ ErrorDrop(r, k)
    \/ Respond502(r, k)

Next ==
    \/ \E r \in Reqs : Arrive(r)
    \/ \E r \in Reqs, k \in Layers : Step(r, k)
    \/ \E r \in Reqs : HandlerRespond(r)
    \/ ExtAcquire
    \/ ExtMutate
    \/ ExtRelease

Spec == Init /\ [][Next]_vars

\* The runtime keeps polling a runnable future, the lock is granted fairly to
\* its waiters, the handler answers every call and the outside holder drops
\* its guard.
Fairness ==
    /\ \A r \in Reqs :
          /\ WF_vars(HandlerRespond(r) \/ \E k \in Layers : Progress(r, k))
          /\ SF_vars(\E k \in Layers : AcquireWrite(r, k))
    /\ WF_vars(ExtMutate \/ ExtRelease)

FairSpec == Init /\ [][Next]_vars /\ Fairness

\* The same, but the handler may take for ever to answer a call.
SlowFairness ==
    /\ \A r \in Reqs :
          /\ WF_vars(\E k \in Layers : Progress(r, k))
          /\ SF_vars(\E k \in Layers : AcquireWrite(r, k))
    /\ WF_vars(ExtMutate \/ ExtRelease)

SlowDownstreamSpec == Init /\ [][Next]_vars /\ SlowFairness

\* ---------------------------------------------------------------- cancellation
\* The future of call() is suspended only at write().await (lines 127, 149) and
\* at srv.call(req).await (lines 132, 153); the runtime can drop it there.
Suspended(r) ==
    /\ frames[r] # <<>>
    /\ frames[r][Len(frames[r])].pc \in {"wait_lock", "await_srv"}

DropFrame(f) ==
    CASE f.pc = "wait_lock" -> [f EXCEPT !.pc = "dropped_at_lock"]
      [] f.pc = "await_srv" -> [f EXCEPT !.pc = "dropped_at_srv"]
      [] OTHER -> f

\* dropping a future drops the locals it owns, a live guard among them
DropGuards(l, r) ==
    [writers |-> {h \in l.writers : h[1] # r}, readers |-> {h \in l.readers : h[1] # r}]

\* the task of request r is cancelled: the futures of all its middlewares go
Cancel(r) ==
    /\ Suspended(r)
    /\ frames' = [frames EXCEPT ![r] = [k \in 1..Len(@) |-> DropFrame(@[k])]]
    /\ locks' = [e \in Enforcers |-> DropGuards(locks[e], r)]
    /\ UNCHANGED <<ready, polled, depth, handler, policies, ext>>

NextOrCancel ==
    \/ Next
    \/ \E r \in Reqs : Cancel(r)

CancelSpec == Init /\ [][NextOrCancel]_vars

\* ---------------------------------------------------------------- readiness
\* Poll<Result<(), Error>>: Ready(Ok(())), Ready(Err(e)), Pending
PollResults == {"Ready", "Err", "Pending"}

RECURSIVE PollReady(_)
\* faulty variant: a middleware whose enforcer is locked reports Pending
PollReadyTriesLock(k) ==
    IF ~WriteReady(locks[Enf(k)]) THEN "Pending"
    ELSE IF k < depth THEN PollReady(k + 1) ELSE ready

\* self.service.poll_ready(cx) (line 104): the wrapped service is the next
\* middleware of the chain, or the handler
PollReady(k) ==
    IF k < depth THEN PollReady(k + 1) ELSE ready

\* the framework polls the outermost middleware
FrameworkPoll ==
    /\ polled' = <<PollReady(1)>>
    /\ UNCHANGED <<ready, depth, frames, handler, locks, policies, ext>>

\* the wrapped handler becomes ready, busy or broken
HandlerReadiness ==
    /\ \E v \in PollResults \ {ready} : ready' = v
    /\ UNCHANGED <<polled, depth, frames, handler, locks, policies, ext>>

NextOrPoll ==
    \/ Next
    \/ FrameworkPoll
    \/ HandlerReadiness

ReadySpec == Init /\ [][NextOrPoll]_vars

\* ---------------------------------------------------------------- properties
Frame(r, k) == frames[r][k]
InFlight(r, k) == Frame(r, k).pc = "await_srv"
HasDomain(r, k) == Frame(r, k).domain # <<>>

\* C1: a frame that is about to call, or is awaiting, its wrapped service does
\* not hold the write guard it took for enforce (either query shape).
C1_LockReleasedBeforeDownstream ==
    \A id \in FrameIds :
        Frame(id[1], id[2]).pc \in {"forward", "await_srv"} => ~Holds(id[1], id[2])

\* two allowed requests, one per query shape, both awaiting the handler
C1_Witness ==
    \E a, b \in FrameIds :
        /\ InFlight(a[1], a[2]) /\ HasDomain(a[1], a[2])
        /\ InFlight(b[1], b[2]) /\ ~HasDomain(b[1], b[2])
        /\ Frame(a[1], a[2]).verdict = Allow /\ Frame(b[1], b[2]).verdict = Allow
        /\ a[2] = depth /\ b[2] = depth
        /\ handler[a[1]].calls = 1 /\ handler[b[1]].calls = 1

\* C2: a request without CasbinVals is answered 401 at once: it never asks
\* for the write lock, never holds it, never calls enforce_mut and never
\* reaches the wrapped service.
C2_NoValsIs401 ==
    \A id \in FrameIds :
        LET r == id[1]
            f == Frame(id[1], id[2])
        IN  f.req.extensions = <<>> =>
              /\ f.pc = "done"
              /\ f.result = <<[kind |-> "Ok", status |-> 401, body |-> <<"right", "empty">>]>>
              /\ f.waits = 0 /\ f.acquires = 0 /\ f.enforces = 0 /\ f.srvCalls = 0
              /\ ~Holds(id[1], id[2])
              /\ Len(frames[r]) = id[2]
              /\ handler[r].calls = 0

C2_Witness ==
    \E r \in Reqs :
        /\ frames[r] # <<>>
        /\ frames[r][1].req.extensions = <<>>
        /\ frames[r][1].result # <<>>
        /\ frames[r][1].result[1].status = 401
        /\ \E o \in Reqs : o # r /\ frames[o] # <<>> /\ frames[o][1].pc = "enforcing"

Status401 == [kind |-> "Ok", status |-> 401, body |-> <<"right", "empty">>]
Status403 == [kind |-> "Ok", status |-> 403, body |-> <<"right", "empty">>]
Status502 == [kind |-> "Ok", status |-> 502, body |-> <<"right", "empty">>]
IsError(v) == Len(v) = 2 /\ v[1] = "error"
EmptySubject(f) == f.req.extensions # <<>> /\ f.req.extensions[1].subject = ""

\* C3: a request whose CasbinVals has an empty subject, with or without a
\* domain, is answered 401 without enforce_mut or the wrapped service being
\* called; so every query enforce_mut receives starts with a non-empty subject.
C3_EmptySubjectIs401 ==
    \A id \in FrameIds :
        LET r == id[1]
            f == Frame(id[1], id[2])
        IN  /\ EmptySubject(f) =>
                 /\ f.pc = "done" /\ f.result = <<Status401>>
                 /\ f.enforces = 0 /\ f.srvCalls = 0
                 /\ Len(frames[r]) = id[2] /\ handler[r].calls = 0
            /\ f.enforces > 0 => f.query # <<>> /\ f.query[1] # ""

C3_Witness ==
    \E a, b \in Reqs :
        /\ frames[a] # <<>> /\ EmptySubject(frames[a][1])
        /\ frames[a][1].req.extensions[1].domain # <<>>
        /\ frames[a][1].result = <<Status401>>
        /\ frames[b] # <<>> /\ EmptySubject(frames[b][1])
        /\ frames[b][1].req.extensions[1].domain = <<>>
        /\ frames[b][1].result = <<Status401>>

\* C4: after a deny or error verdict, in either query shape, the frame never
\* calls its wrapped service: no inner frame and no handler call follow.
C4_DenyErrorNeverForwarded ==
    \A id \in FrameIds :
        LET r == id[1]
            f == Frame(id[1], id[2])
        IN  (f.verdict = Deny \/ IsError(f.verdict)) =>
              /\ f.srvCalls = 0
              /\ f.pc \notin {"forward", "await_srv"}
              /\ Len(frames[r]) = id[2]
              /\ handler[r].calls = 0

C4_Witness ==
    \E a, b \in FrameIds :
        /\ Frame(a[1], a[2]).verdict = Deny /\ HasDomain(a[1], a[2])
        /\ Frame(a[1], a[2]).pc = "done"
        /\ IsError(Frame(b[1], b[2]).verdict) /\ ~HasDomain(b[1], b[2])
        /\ Frame(b[1], b[2]).pc = "done"

\* what the service wrapped by frame <<r, k>> was called with
DownstreamReq(r, k) ==
    IF k < depth
    THEN IF Len(frames[r]) > k THEN <<frames[r][k + 1].req>> ELSE <<>>
    ELSE handler[r].req

\* C5: after an allow verdict the wrapped service is called exactly once, with
\* the original request, and the frame's outcome is the wrapped service's
\* outcome: its error unchanged, or its response in the left body branch.
C5_AllowForwardsOnce ==
    /\ \A r \in Reqs : handler[r].calls <= 1
    /\ \A id \in FrameIds :
        LET r == id[1]
            k == id[2]
            f == Frame(id[1], id[2])
        IN  /\ f.srvCalls <= 1
            /\ f.srvCalls = 1 => f.verdict = Allow
            /\ (f.verdict = Allow /\ f.pc \in {"await_srv", "done"}) =>
                 /\ f.srvCalls = 1
                 /\ DownstreamReq(r, k) = <<frames[r][1].req>>
                 /\ k = depth => handler[r].calls = 1
            /\ (f.verdict = Allow /\ f.pc = "done") =>
                 LET d == Downstream(r, k)[1]
                     res == f.result[1]
                 IN  /\ Downstream(r, k) # <<>>
                     /\ res.kind = d.kind
                     /\ res.status = d.status
                     /\ d.kind = "Err" => res = d
                     /\ d.kind = "Ok" => res.body = <<"left">> \o d.body

\* a handler that itself answers 403 is passed through in the left branch
C5_Witness ==
    \E r \in Reqs :
        /\ frames[r] # <<>>
        /\ frames[r][1].verdict = Allow /\ frames[r][1].pc = "done"
        /\ handler[r].calls = 1
        /\ frames[r][1].result[1].status = 403
        /\ frames[r][1].result[1].body[1] = "left"

\* C6: the outcome of a finished frame is the table's: no CasbinVals -> 401,
\* empty subject -> 401, deny -> 403, error of any kind -> 502, allow ->
\* forwarded; a verdict exists exactly for the admitted requests; every
\* synthesized response is a right-branch 401, 403 or 502.
C6_OutcomeTable ==
    \A id \in FrameIds :
        LET f == Frame(id[1], id[2])
            res == f.result[1]
        IN  f.pc = "done" =>
              /\ f.result # <<>>
              /\ (f.verdict = <<>>) <=> (f.req.extensions = <<>> \/ EmptySubject(f))
              /\ f.req.extensions = <<>> => res = Status401
              /\ EmptySubject(f) => res = Status401
              /\ f.verdict = Deny => res = Status403
              /\ IsError(f.verdict) => res = Status502
              /\ f.verdict = Allow => (res.kind = "Err" \/ res.body[1] = "left")
              /\ (res.kind = "Ok" /\ res.body[1] = "right") =>
                    res \in {Status401, Status403, Status502}

C6_Witness ==
    \E a, b \in FrameIds :
        /\ Frame(a[1], a[2]).pc = "done" /\ Frame(a[1], a[2]).verdict = Error("adapter")
        /\ Frame(a[1], a[2]).result = <<Status502>>
        /\ Frame(b[1], b[2]).pc = "done" /\ Frame(b[1], b[2]).verdict = Error("matcher")
        /\ Frame(b[1], b[2]).result = <<Status502>>
        /\ \E c \in FrameIds : Frame(c[1], c[2]).pc = "done" /\ Frame(c[1], c[2]).verdict = Allow

\* C7: enforce_mut receives <<subject, domain, path, action>> iff CasbinVals
\* has a domain and <<subject, path, action>> otherwise, with the request's
\* own path and method name, unchanged.
C7_QueryShape ==
    \A id \in FrameIds :
        LET f == Frame(id[1], id[2])
            vals == f.req.extensions[1]
            q == f.query
        IN  f.enforces > 0 =>
              /\ Len(q) = IF vals.domain # <<>> THEN 4 ELSE 3
              /\ q[1] = vals.subject
              /\ vals.domain # <<>> => q[2] = vals.domain[1]
              /\ q[Len(q) - 1] = f.req.path
              /\ q[Len(q)] = MethodAsStr(f.req.method)

C7_Witness ==
    \E a, b \in FrameIds :
        /\ Frame(a[1], a[2]).enforces = 1 /\ Len(Frame(a[1], a[2]).query) = 4
        /\ Frame(a[1], a[2]).query[3] = "/Data/1/"
        /\ Frame(b[1], b[2]).enforces = 1 /\ Len(Frame(b[1], b[2]).query) = 3
        /\ Frame(b[1], b[2]).query[2] = "/data/1"

Enforcing == {id \in FrameIds : Frame(id[1], id[2]).pc = "enforcing"}

\* C8: enforce_mut runs only under the caller's write guard, no read guard is
\* ever taken, at most one guard exists, and at most one frame of all the
\* middlewares sharing the enforcer is inside enforce_mut.
C8_EnforceExclusive ==
    /\ \A id \in Enforcing : id \in lock.writers
    /\ lock.readers = {}
    /\ Cardinality(lock.writers) <= 1
    /\ Cardinality(Enforcing) <= 1

\* an inner middleware is inside enforce_mut while another request waits for
\* the lock at the outer one
C8_Witness ==
    \E a, b \in FrameIds :
        /\ a[1] # b[1] /\ a[2] = 2 /\ b[2] = 1
        /\ Frame(a[1], a[2]).pc = "enforcing"
        /\ Frame(b[1], b[2]).pc = "wait_lock"

\* position of a frame in the linear order of call()
Rank(pc) ==
    CASE pc = "wait_lock" -> 1
      [] pc = "locked" -> 2
      [] pc = "enforcing" -> 3
      [] pc \in {"arm_allow", "arm_deny", "arm_error"} -> 4
      [] pc = "error_logged" -> 5
      [] pc \in {"forward", "synth_403", "synth_502"} -> 6
      [] pc = "await_srv" -> 7
      [] pc = "done" -> 8

C9_StateInv ==
    \A id \in FrameIds :
        LET f == Frame(id[1], id[2])
        IN  /\ f.waits <= 1 /\ f.acquires <= 1 /\ f.enforces <= 1
            /\ f.pc \in {"wait_lock", "await_srv", "done"} => ~Holds(id[1], id[2])
            /\ f.pc = "done" => f.result # <<>>

C9_Forward ==
    \A r \in Reqs : \A k \in 1..Len(frames[r]) :
        frames'[r][k].pc # frames[r][k].pc =>
            Rank(frames'[r][k].pc) > Rank(frames[r][k].pc)

\* C9: a frame of call() only moves forward through its stages and never
\* asks for the lock or calls enforce_mut twice; it holds no guard while
\* suspended at write().await or srv.call().await, nor once it has finished.
C9_LinearNoRetry == [] C9_StateInv /\ [][C9_Forward]_vars

\* a frame has finished with 502 while another frame holds the write guard
C9_Witness ==
    \E a, b \in FrameIds :
        /\ Frame(a[1], a[2]).pc = "done" /\ IsError(Frame(a[1], a[2]).verdict)
        /\ Frame(a[1], a[2]).acquires = 1
        /\ a[1] # b[1] /\ Holds(b[1], b[2])

OuterAllowed(r) ==
    IF frames[r] = <<>> THEN FALSE ELSE depth >= 2 /\ frames[r][1].verdict = Allow
InnerAcquired(r) ==
    IF Len(frames[r]) >= 2 THEN frames[r][2].acquires = 1 ELSE FALSE
Finished(r) ==
    IF frames[r] = <<>> THEN FALSE ELSE frames[r][1].pc = "done"
C10_NotHeldBySelf ==
    \A id \in FrameIds :
        Frame(id[1], id[2]).pc = "wait_lock" =>
            \A j \in 1..Len(frames[id[1]]) : ~Holds(id[1], j)

\* C10: with nested middlewares on one enforcer, a frame waiting for the
\* write lock never finds it held by a frame of its own request; under a fair
\* lock a request allowed by the outer middleware gets the guard in the inner
\* one, and the request finishes.
C10_NestedNoDeadlock ==
    /\ [] C10_NotHeldBySelf
    /\ \A r \in Reqs : OuterAllowed(r) ~> (InnerAcquired(r) /\ Finished(r))

\* the inner middleware holds the guard while the outer one awaits it
C10_Witness ==
    \E r \in Reqs :
        /\ Len(frames[r]) >= 2
        /\ frames[r][1].pc = "await_srv" /\ frames[r][1].verdict = Allow
        /\ Holds(r, 2)
        /\ \E o \in Reqs : o # r /\ frames[o] # <<>> /\ frames[o][1].pc = "wait_lock"

LockedSection == {"locked", "enforcing", "arm_allow", "arm_deny", "arm_error", "error_logged"}
InLockPhase(r) ==
    \E k \in 1..Len(frames[r]) : frames[r][k].pc \in {"wait_lock", "locked", "enforcing"}
AwaitingHandler(r) ==
    /\ handler[r].calls = 1 /\ handler[r].resp = <<>>
    /\ Len(frames[r]) = depth /\ frames[r][depth].pc = "await_srv"
C11_GuardOnlyInSection ==
    \A h \in lock.writers :
        h = ExtHolder \/ (h \in FrameIds /\ Frame(h[1], h[2]).pc \in LockedSection)

\* C11: a write guard is only ever held inside the synchronous section
\* between write().await and drop(lock), never by a frame awaiting its wrapped
\* service; so even with a handler that never answers, every request that
\* asks for the lock gets it and gets its verdict.
C11_DownstreamNotSerialized ==
    /\ [] C11_GuardOnlyInSection
    /\ \A r \in Reqs : InLockPhase(r) ~> ~InLockPhase(r)

\* two allowed requests are inside the handler at once, and the lock is free
C11_Witness ==
    \E a, b \in Reqs :
        /\ a # b
        /\ AwaitingHandler(a) /\ AwaitingHandler(b)
        /\ frames[a][depth].verdict = Allow /\ frames[b][depth].verdict = Allow
        /\ lock = FreeLock

ErrorLines(f) == {i \in 1..Len(f.stderr) : f.stderr[i][1] \in {"140", "161"}}
QueryLines(f) == {i \in 1..Len(f.stderr) : f.stderr[i][1] = "query"}

\* C12: on an error verdict the guard is released first, the error line is
\* written next and the 502 is synthesized last: a frame that has written its
\* error line no longer holds the guard, and a frame that has its 502 has
\* written the line.
C12_ReleaseBeforeErrorLine ==
    \A id \in FrameIds :
        LET f == Frame(id[1], id[2])
        IN  /\ ErrorLines(f) # {} => ~Holds(id[1], id[2])
            /\ (IsError(f.verdict) /\ f.result # <<>>) => ErrorLines(f) # {}

\* C13: a frame that consults the enforcer writes exactly one line holding
\* its query, whatever the query shape, and one more line holding the error
\* when the verdict is an error; a frame that never consults it writes nothing.
C13_DiagnosticLines ==
    \A id \in FrameIds :
        LET f == Frame(id[1], id[2])
        IN  /\ f.enforces = 0 => f.stderr = <<>>
            /\ f.enforces >= 1 =>
                 /\ Cardinality(QueryLines(f)) = 1
                 /\ \A i \in QueryLines(f) : f.stderr[i] = <<"query">> \o f.query
            /\ Cardinality(ErrorLines(f)) <= 1
            /\ \A i \in ErrorLines(f) : IsError(f.verdict) /\ f.stderr[i][2] = f.verdict[2]
            /\ f.pc = "done" =>
                 Cardinality(ErrorLines(f)) = IF IsError(f.verdict) THEN 1 ELSE 0

\* C15: a finished frame returns Err exactly when its verdict was allow and
\* its wrapped service returned Err, and then it returns that very error; the
\* 401, 403 and 502 outcomes, an enforcer error included, are Ok responses.
C15_ErrOnlyFromDownstream ==
    \A id \in FrameIds :
        LET r == id[1]
            k == id[2]
            f == Frame(id[1], id[2])
            d == Downstream(id[1], id[2])
        IN  f.pc = "done" =>
              /\ f.result[1].kind = "Err" <=>
                    (f.verdict = Allow /\ f.srvCalls = 1 /\ d # <<>> /\ d[1].kind = "Err")
              /\ f.result[1].kind = "Err" => f.result = d
              /\ f.verdict # Allow =>
                    f.result[1].kind = "Ok" /\ f.result[1].status \in {401, 403, 502}

\* one request came back with the handler's error, another with a 502 after
\* an enforcer error
C15_Witness ==
    \E a, b \in Reqs :
        /\ frames[a] # <<>> /\ frames[a][1].pc = "done"
        /\ frames[a][1].result = <<HandlerErr>> /\ handler[a].resp = <<HandlerErr>>
        /\ frames[b] # <<>> /\ frames[b][1].pc = "done"
        /\ IsError(frames[b][1].verdict) /\ frames[b][1].result[1].kind = "Ok"

\* the order of call(): lines 114-125, 127/149, 129/150, 131/135/142 (152/156/163), 132/153
CallOrder == <<"identity", "acquire", "enforce", "release", "downstream">>
IsPrefix(t, u) == Len(t) <= Len(u) /\ \A i \in 1..Len(t) : t[i] = u[i]

\* C18: what a frame has executed is always an initial part of: identity
\* check, lock acquire, enforce, lock release, downstream call; the downstream
\* call is there only after an enforce that returned allow, and a finished
\* frame stopped after the identity check (401), after the release (403, 502)
\* or after the downstream call (allow).
C18_FixedOrder ==
    \A id \in FrameIds :
        LET f == Frame(id[1], id[2])
            n == Len(f.trace)
        IN  /\ IsPrefix(f.trace, CallOrder)
            /\ n >= 1
            /\ n = 5 => (f.verdict = Allow /\ f.enforces = 1)
            /\ f.srvCalls > 0 => (n = 5 /\ f.verdict = Allow)
            /\ f.verdict # <<>> => n >= 3
            /\ Holds(id[1], id[2]) => (n \in {2, 3} /\ f.trace[2] = "acquire")
            /\ f.pc = "done" =>
                 n = CASE f.verdict = <<>> -> 1
                        [] f.verdict = Allow -> 5
                        [] OTHER -> 4

\* the outer middleware has gone through all five stages and the inner one
\* has released its guard after a deny
C18_Witness ==
    \E r \in Reqs :
        /\ Len(frames[r]) = 2
        /\ frames[r][1].trace = CallOrder
        /\ frames[r][2].trace = <<"identity", "acquire", "enforce", "release">>
        /\ frames[r][2].verdict = Deny

Stale(r, k) ==
    IF k <= Len(frames[r])
    THEN frames[r][k].verdict = Allow /\ frames[r][k].query \notin policy
    ELSE FALSE
C19_ForwardEnabled ==
    \A id \in FrameIds :
        Frame(id[1], id[2]).pc = "forward" => ENABLED SrvCall(id[1], id[2])
C19_ForwardStep ==
    \A r \in Reqs : \A k \in 1..Len(frames[r]) :
        (frames[r][k].pc = "forward" /\ frames'[r][k] # frames[r][k]) =>
            /\ frames'[r][k].pc = "await_srv"
            /\ frames'[r][k].srvCalls = 1
            /\ frames'[r][k].enforces = 1
            /\ frames'[r][k].verdict = Allow
            /\ lock' = lock /\ policy' = policy

\* C19: the allow verdict is not looked at again once the guard is dropped:
\* a frame that has dropped its guard on allow can always go on to srv.call,
\* whatever the policy has become meanwhile, and its next step is that call,
\* made without the lock and without another enforce_mut.
C19_VerdictNotRechecked == [] C19_ForwardEnabled /\ [][C19_ForwardStep]_vars

\* the outside holder has changed the policy and dropped its guard; the frame
\* was allowed, has not called its wrapped service yet, and the enforcer would
\* now deny its query
C19_WindowOpen ==
    \E id \in FrameIds :
        /\ Frame(id[1], id[2]).pc = "forward"
        /\ Stale(id[1], id[2])
        /\ ext = "idle" /\ lock = FreeLock

\* the wrapped handler has been called for a query the enforcer now denies,
\* by a frame that was still before srv.call when the policy changed
C19_Witness ==
    \E r \in Reqs :
        /\ Len(frames[r]) = depth
        /\ frames[r][depth].pc = "await_srv" /\ Stale(r, depth)
        /\ handler[r].calls = 1 /\ handler[r].resp = <<>>
        /\ ext = "idle" /\ lock = FreeLock
        /\ \E o \in Reqs : o # r /\ frames[o] = <<>>

Dropped == {"dropped_at_lock", "dropped_at_srv"}
Cancelled(r) == IF frames[r] = <<>> THEN FALSE ELSE frames[r][1].pc \in Dropped
C14_CancelledInv ==
    /\ \A id \in FrameIds :
          LET r == id[1]
              f == Frame(id[1], id[2])
          IN  /\ f.pc \in Dropped =>
                   /\ ~Holds(id[1], id[2])
                   /\ f.result = <<>>
              /\ f.pc = "dropped_at_lock" =>
                   /\ f.acquires = 0 /\ f.enforces = 0 /\ f.srvCalls = 0
                   /\ f.verdict = <<>> /\ f.stderr = <<>>
                   /\ Len(frames[r]) = id[2]
                   /\ handler[r].calls = 0
    /\ \A h \in lock.writers \cup lock.readers :
          h = ExtHolder \/ ~Cancelled(h[1])
    /\ \A id \in FrameIds :
          (Frame(id[1], id[2]).pc = "wait_lock" /\ lock = FreeLock) =>
              ENABLED AcquireWrite(id[1], id[2])
C14_CancelStep ==
    \A r \in Reqs :
        (~Cancelled(r) /\ Cancelled(r)') =>
            /\ \A k \in 1..Len(frames[r]) : ~Holds(r, k)
            /\ lock' = lock

\* C14: a request cancelled while waiting for the write lock has no guard,
\* has no response and has called neither enforce_mut nor its wrapped service;
\* a request cancelled while awaiting its wrapped service has no guard and no
\* response; cancelling takes nothing from and leaves nothing in the lock, so
\* a free lock is granted to whoever waits for it.
C14_CancelHoldsNoLock == [] C14_CancelledInv /\ [][C14_CancelStep]_vars

\* one request was cancelled at write().await, another at srv.call().await,
\* and the outside holder has the guard
C14_Witness ==
    \E a, b \in Reqs :
        /\ a # b
        /\ frames[a] # <<>> /\ frames[a][Len(frames[a])].pc = "dropped_at_lock"
        /\ frames[b] # <<>> /\ frames[b][Len(frames[b])].pc = "dropped_at_srv"
        /\ Cancelled(a) /\ Cancelled(b)
        /\ lock.writers = {ExtHolder}

Arrived(r) == frames[r] # <<>>
Admitted(f) == f.req.extensions # <<>> /\ f.req.extensions[1].subject # ""
Terminal(res) ==
    \/ res \in {Status401, Status403, Status502}
    \/ res.kind = "Ok" /\ res.body[1] = "left"
    \/ res = HandlerErr
C20_OneOutcome ==
    \A id \in FrameIds :
        LET f == Frame(id[1], id[2])
        IN  /\ f.enforces <= 1
            /\ f.enforces = 1 => Admitted(f)
            /\ f.pc # "done" => f.result = <<>>
            /\ f.pc = "done" =>
                 /\ Len(f.result) = 1 /\ Terminal(f.result[1])
                 /\ f.enforces = IF Admitted(f) THEN 1 ELSE 0

\* C20: with a fair lock, holders that release and a handler that answers
\* every call, every request that arrives finishes with exactly one outcome:
\* 401, 403, 502, the forwarded response or the wrapped service's error; each
\* middleware calls enforce_mut at most once for it, and exactly once by the
\* time it finishes iff its CasbinVals is present with a non-empty subject.
C20_Terminates ==
    /\ [] C20_OneOutcome
    /\ \A r \in Reqs : Arrived(r) ~> Finished(r)

\* both requests are over: one went through two middlewares and the handler,
\* the other was turned away before any enforce_mut
C20_Witness ==
    \E a, b \in Reqs :
        /\ Len(frames[a]) = 2 /\ frames[a][1].pc = "done" /\ frames[a][2].pc = "done"
        /\ frames[a][1].enforces = 1 /\ frames[a][2].enforces = 1
        /\ handler[a].calls = 1
        /\ Len(frames[b]) = 1 /\ frames[b][1].pc = "done"
        /\ frames[b][1].enforces = 0 /\ frames[b][1].result = <<Status401>>

C16_OneInstance ==
    /\ Handle = Gate.enforcer
    /\ Gate2.enforcer = Gate.enforcer
    /\ \A k \in Layers : Middleware(k).enforcer = Gate.enforcer
C16_VerdictFromHandle ==
    \A id \in FrameIds :
        LET f == Frame(id[1], id[2])
        IN  /\ f.pc \in {"arm_allow", "arm_deny"} =>
                 (f.verdict = Allow <=> f.query \in policies[Handle])
            /\ f.pc \in LockedSection =>
                 (ExtHolder \notin locks[Handle].writers /\ ext = "idle")

\* C16: the gate, the handle of get_enforcer, the gate built by set_enforcer
\* from that handle and every middleware of either gate hold the same
\* enforcer: a verdict of any middleware is the answer of the rule set as the
\* handle's holder last left it, and no middleware is between write().await
\* and drop(lock) while the handle's holder has the guard.
C16_SharedEnforcer == C16_OneInstance /\ C16_VerdictFromHandle

\* the outer middleware allowed the request; then the handle's holder took
\* the rules away, and the inner middleware, built before that, denies the
\* same query
C16_Witness ==
    \E r \in Reqs :
        /\ Len(frames[r]) = 2
        /\ frames[r][1].verdict = Allow
        /\ frames[r][2].pc = "arm_deny"
        /\ frames[r][2].query = frames[r][1].query
        /\ frames[r][2].query \notin policies[Handle]
        /\ Middleware(2) = NewTransform(Gate2)

C17_Delegates ==
    /\ \A k \in 1..depth : PollReady(k) = ready
    /\ ENABLED FrameworkPoll
C17_PollStep ==
    polled' # polled =>
        /\ polled' = <<ready>>
        /\ locks' = locks /\ policies' = policies
        /\ frames' = frames /\ handler' = handler /\ ext' = ext

\* C17: poll_ready of every middleware answers what the wrapped handler's
\* poll_ready answers, whoever holds the enforcer's lock; a poll can always be
\* made and it changes nothing but the answer the framework holds: no guard is
\* asked for, taken or dropped.
C17_PollReadyDelegates == [] C17_Delegates /\ [][C17_PollStep]_vars

\* the framework holds Ready from a chain of two middlewares whose handler is
\* ready, while the outside holder has the write guard and a request waits
\* for it
C17_Witness ==
    /\ depth = 2
    /\ polled = <<"Ready">> /\ ready = "Ready"
    /\ lock.writers = {ExtHolder}
    /\ \E r \in Reqs : At(r, 1, "wait_lock")

====
